---- MODULE Spec2Model ----
(***************************************************************************)
(* Model of caliguland-auth/app.py: the session-token lifecycle of the     *)
(* authentication gateway (POST /login, GET /auth/validate, GET /logout,   *)
(* GET /health) and the cached JWT signing secret that login and validate  *)
(* share.                                                                  *)
(*                                                                         *)
(* Every endpoint is an `async def` without any await, and get_jwt_secret  *)
(* calls the synchronous DstackClient, so one request handler runs to      *)
(* completion on the event loop before the next one starts: each handler   *)
(* is one atomic action.                                                   *)
(*                                                                         *)
(* Time is counted in ticks of 1/TicksPerSecond s.  datetime values keep   *)
(* their sub-second part; the exp and iat claims of a token are whole      *)
(* seconds (PyJWT encodes a datetime with timegm(utctimetuple())).         *)
(***************************************************************************)
EXTENDS Integers, Sequences, FiniteSets, TLC

VARIABLES
    now,            \* the wall clock (datetime.utcnow()), in ticks
    _jwt_secret,    \* app.py:68, the cached signing key (None until derived)
    JWT_EXPIRY_HOURS, \* app.py:63, read once from the environment
    dstack,         \* the key-management service: "up", "down" or "malformed"
    dstackKey,      \* the key the service derives for JWT_KEY_PATH
    issued,         \* the token of the last Set-Cookie a login answered with
    session,        \* what became of the issued token: "issued", then
                    \* "accepted" by validate, then "loggedOut"
    last            \* the last request handled and the response it got

vars == <<now, _jwt_secret, JWT_EXPIRY_HOURS, dstack, dstackKey, issued,
          session, last>>

-----------------------------------------------------------------------------
(* Bounds of the model *)

TicksPerSecond == 2
MaxExpiryHours == 1

(* Program constants *)

SecondsPerHour == 3600
BcryptMaxBytes == 72

TicksPerHour == SecondsPerHour * TicksPerSecond

\* the clock is followed over the longest token lifetime, and inside an
\* hour up to the first tick of the next second
MaxHours == MaxExpiryHours
MaxSubTicks == TicksPerSecond

USERNAME == "admin"
VIBEVM_PASSWORD == "secret123"
JWT_PURPOSE == "caliguland-session"

\* Python's None, for a value that is otherwise a str
None == "<None>"
\* a claim that a token's payload does not carry
NoClaim == "<absent>"
NoTime == 0 - 1

\* Python truthiness of an Optional[str]: None and "" are falsy
Truthy(s) == s # None /\ s # ""

-----------------------------------------------------------------------------
(* Cookie values.  A cookie is absent, the empty string, a string that is  *)
(* no JWT, or a JWT: its payload and the key its HS256 signature was made  *)
(* with.                                                                   *)

Jwt(sub, exp, iat, purpose, key) ==
    [kind |-> "jwt", sub |-> sub, exp |-> exp, iat |-> iat,
     purpose |-> purpose, key |-> key]

Opaque(kind) ==
    [kind |-> kind, sub |-> NoClaim, exp |-> NoTime, iat |-> NoTime,
     purpose |-> NoClaim, key |-> None]

NoCookie == Opaque("absent")
EmptyCookie == Opaque("empty")
GarbageCookie == Opaque("garbage")
DeletedCookie == Opaque("deleted")

\* `vibevm_session is None`: the empty string counts as a cookie
CookieTruthy_IsNotNone(c) == c.kind # "absent"

\* `not vibevm_session`
CookieTruthy(c) == c.kind \notin {"absent", "empty"}

\* keys the key-management service may hold for the path
DstackKeys == {"", "k1"}
\* a key that the key-management service does not hold
OtherKey == "k2"

\* a time after every time the clock reaches
FarFuture == (MaxHours + MaxExpiryHours + 1) * SecondsPerHour

\* tokens not issued by this process that a client may present: signed
\* with the service's key or another one, expired or not, of this purpose,
\* another or none; and tokens without a sub or without an exp claim
Forged ==
    { Jwt(USERNAME, exp, 0, purpose, key) :
        exp \in {0, FarFuture},
        purpose \in {JWT_PURPOSE, "other-purpose", NoClaim},
        key \in {dstackKey, OtherKey} }
    \cup { Jwt(NoClaim, FarFuture, 0, JWT_PURPOSE, dstackKey),
           Jwt(USERNAME, NoTime, 0, JWT_PURPOSE, dstackKey) }

-----------------------------------------------------------------------------
(* Library functions *)

\* timegm(dt.utctimetuple()): a datetime as whole seconds
ToTimestamp(t) == t \div TicksPerSecond

\* the passwords a client submits; the last one is 73 bytes long
LongPassword ==
    "secret123-secret123-secret123-secret123-secret123-secret123-secret123-123"
Passwords == {VIBEVM_PASSWORD, "wrongpass", LongPassword}
Usernames == {USERNAME, "eve"}

\* bcrypt.hashpw: a salted one-way digest (no two passwords collide)
bcrypt_hashpw(password, salt) == <<salt, password>>

PASSWORD_HASH_BYTES == bcrypt_hashpw(VIBEVM_PASSWORD, "salt")

\* bcrypt.checkpw given a digest of the submitted password itself
bcrypt_checkpw_OwnDigest(password, hashed) ==
    IF Len(password) > BcryptMaxBytes THEN "ValueError"
    ELSE IF bcrypt_hashpw(password, hashed[1])
                = bcrypt_hashpw(password, hashed[1]) THEN "True"
    ELSE "False"

\* bcrypt.checkpw: ValueError for a password longer than 72 bytes, else
\* whether hashing the password with the digest's salt gives the digest
bcrypt_checkpw(password, hashed) ==
    IF Len(password) > BcryptMaxBytes THEN "ValueError"
    ELSE IF bcrypt_hashpw(password, hashed[1]) = hashed THEN "True"
    ELSE "False"

\* jwt.encode of a payload that lost its "purpose" entry
jwt_encode_NoPurpose(sub, exp, iat, purpose, key) ==
    Jwt(sub, ToTimestamp(exp), ToTimestamp(iat), NoClaim, key)

\* jwt.encode(payload, key, algorithm="HS256")
jwt_encode(sub, exp, iat, purpose, key) ==
    Jwt(sub, ToTimestamp(exp), ToTimestamp(iat), purpose, key)

\* jwt.decode that takes a token for expired only after its exp second
jwt_decode_ExpiresLate(token, key, t) ==
    IF token.kind # "jwt" THEN "DecodeError"
    ELSE IF token.key # key THEN "InvalidSignatureError"
    ELSE IF token.iat # NoTime /\ token.iat * TicksPerSecond > t
        THEN "ImmatureSignatureError"
    ELSE IF token.exp # NoTime /\ (token.exp + 1) * TicksPerSecond <= t
        THEN "ExpiredSignatureError"
    ELSE "payload"

\* jwt.decode with options={"verify_signature": False}
jwt_decode_NoVerify(token, key, t) ==
    IF token.kind # "jwt" THEN "DecodeError"
    ELSE "payload"

\* jwt.decode that looks at exp before it verifies the signature
jwt_decode_ExpiryFirst(token, key, t) ==
    IF token.kind # "jwt" THEN "DecodeError"
    ELSE IF token.exp # NoTime /\ token.exp * TicksPerSecond <= t
        THEN "ExpiredSignatureError"
    ELSE IF token.key # key THEN "InvalidSignatureError"
    ELSE IF token.iat # NoTime /\ token.iat * TicksPerSecond > t
        THEN "ImmatureSignatureError"
    ELSE "payload"

\* jwt.decode(token, key, algorithms=["HS256"]) at clock t: the exception it
\* raises, or "payload"
jwt_decode(token, key, t) ==
    IF token.kind # "jwt" THEN "DecodeError"
    ELSE IF token.key # key THEN "InvalidSignatureError"
    ELSE IF token.iat # NoTime /\ token.iat * TicksPerSecond > t
        THEN "ImmatureSignatureError"
    ELSE IF token.exp # NoTime /\ token.exp * TicksPerSecond <= t
        THEN "ExpiredSignatureError"
    ELSE "payload"

-----------------------------------------------------------------------------
(* get_jwt_secret, app.py:70-86: what the call returns or raises, the value *)
(* of _jwt_secret after it, and whether DstackClient.get_key was invoked.   *)

\* get_jwt_secret without lines 73-74: the key is derived on every call
get_jwt_secret_NoCacheCheck ==
    IF dstack = "up"
    THEN [raised |-> FALSE, value |-> dstackKey, cache |-> dstackKey,
          called |-> TRUE]
    ELSE [raised |-> TRUE, value |-> None, cache |-> _jwt_secret,
          called |-> TRUE]

\* get_jwt_secret that answers a failed derivation with a built-in key
get_jwt_secret_FallbackKey ==
    IF Truthy(_jwt_secret)
    THEN [raised |-> FALSE, value |-> _jwt_secret, cache |-> _jwt_secret,
          called |-> FALSE]
    ELSE IF dstack = "up"
    THEN [raised |-> FALSE, value |-> dstackKey, cache |-> dstackKey,
          called |-> TRUE]
    ELSE [raised |-> FALSE, value |-> OtherKey, cache |-> _jwt_secret,
          called |-> TRUE]

get_jwt_secret ==
    IF Truthy(_jwt_secret)
    THEN [raised |-> FALSE, value |-> _jwt_secret, cache |-> _jwt_secret,
          called |-> FALSE]
    ELSE IF dstack = "up"
    THEN [raised |-> FALSE, value |-> dstackKey, cache |-> dstackKey,
          called |-> TRUE]
    ELSE [raised |-> TRUE, value |-> None, cache |-> _jwt_secret,
          called |-> TRUE]

-----------------------------------------------------------------------------
(* Responses.  An outcome is what a handler answers (status, detail, the   *)
(* user of a 200, the Location and the Set-Cookie of a redirect), whether   *)
(* it invoked DstackClient.get_key, and the value it leaves in _jwt_secret. *)

HTTPException(status, detail) ==
    [status |-> status, detail |-> detail, user |-> NoClaim,
     location |-> NoClaim, setCookie |-> NoCookie,
     keyCalled |-> FALSE, cache |-> _jwt_secret]

\* a failed derivation that is remembered: the except clause leaves a
\* marker in _jwt_secret
KeyDerivationError_Remembered ==
    [HTTPException(500, "Failed to derive JWT key")
     EXCEPT !.keyCalled = TRUE, !.cache = "unavailable"]

\* the HTTPException(500) that get_jwt_secret raises, app.py:84-86
KeyDerivationError ==
    [HTTPException(500, "Failed to derive JWT key") EXCEPT !.keyCalled = TRUE]

\* RedirectResponse(url, status_code=302) with its cookie directive
RedirectResponse(url, cookie) ==
    [status |-> 302, detail |-> NoClaim, user |-> NoClaim,
     location |-> url, setCookie |-> cookie,
     keyCalled |-> FALSE, cache |-> _jwt_secret]

\* login that tells the client which field was wrong
login_NamesField(username, password, t1, t2) ==
    IF username # USERNAME
    THEN HTTPException(401, "Unknown user")
    ELSE IF bcrypt_checkpw(password, PASSWORD_HASH_BYTES) # "True"
    THEN HTTPException(401, "Invalid credentials")
    ELSE LET expiry == t1 + JWT_EXPIRY_HOURS * TicksPerHour
             secret == get_jwt_secret
         IN  IF secret.raised
             THEN KeyDerivationError
             ELSE [RedirectResponse("/code-server",
                       jwt_encode(username, expiry, t2, JWT_PURPOSE,
                                  secret.value))
                   EXCEPT !.keyCalled = secret.called,
                          !.cache = secret.cache]

\* login whose except clause passes: only a completed comparison that
\* answers False is rejected
login_ExceptPasses(username, password, t1, t2) ==
    IF username # USERNAME
    THEN HTTPException(401, "Invalid credentials")
    ELSE IF bcrypt_checkpw(password, PASSWORD_HASH_BYTES) = "False"
    THEN HTTPException(401, "Invalid credentials")
    ELSE LET expiry == t1 + JWT_EXPIRY_HOURS * TicksPerHour
             secret == get_jwt_secret
         IN  IF secret.raised
             THEN KeyDerivationError
             ELSE [RedirectResponse("/code-server",
                       jwt_encode(username, expiry, t2, JWT_PURPOSE,
                                  secret.value))
                   EXCEPT !.keyCalled = secret.called,
                          !.cache = secret.cache]

\* login without lines 225-226: only the password is checked
login_NoUsernameCheck(username, password, t1, t2) ==
    IF bcrypt_checkpw(password, PASSWORD_HASH_BYTES) # "True"
    THEN HTTPException(401, "Invalid credentials")
    ELSE LET expiry == t1 + JWT_EXPIRY_HOURS * TicksPerHour
             secret == get_jwt_secret
         IN  IF secret.raised
             THEN KeyDerivationError
             ELSE [RedirectResponse("/code-server",
                       jwt_encode(username, expiry, t2, JWT_PURPOSE,
                                  secret.value))
                   EXCEPT !.keyCalled = secret.called,
                          !.cache = secret.cache]

\* POST /login, app.py:215-261.  t1 and t2 are the two readings of
\* datetime.utcnow(), at lines 237 and 242.
login(username, password, t1, t2) ==
    IF username # USERNAME
    THEN HTTPException(401, "Invalid credentials")
    ELSE IF bcrypt_checkpw(password, PASSWORD_HASH_BYTES) # "True"
    THEN HTTPException(401, "Invalid credentials")
    ELSE LET expiry == t1 + JWT_EXPIRY_HOURS * TicksPerHour
             secret == get_jwt_secret
         IN  IF secret.raised
             THEN KeyDerivationError
             ELSE [RedirectResponse("/code-server",
                       jwt_encode(username, expiry, t2, JWT_PURPOSE,
                                  secret.value))
                   EXCEPT !.keyCalled = secret.called,
                          !.cache = secret.cache]

\* the text of an InvalidTokenError, as it appears in the 401's detail
InvalidTokenDetail(e) ==
    CASE e = "DecodeError" -> "Invalid token: Not enough segments"
      [] e = "InvalidSignatureError" ->
             "Invalid token: Signature verification failed"
      [] e = "ImmatureSignatureError" ->
             "Invalid token: The token is not yet valid (iat)"

\* the try block of validate, app.py:270-286, at clock t.  The
\* HTTPException of get_jwt_secret and the KeyError of payload["sub"] are
\* no jwt.InvalidTokenError: they leave the handler as a 500.
validate_try(vibevm_session, t) ==
    LET secret == get_jwt_secret
        payload == jwt_decode(vibevm_session, secret.value, t)
        answer ==
            IF payload = "ExpiredSignatureError"
            THEN HTTPException(401, "Session expired")
            ELSE IF payload # "payload"
            THEN HTTPException(401, InvalidTokenDetail(payload))
            ELSE IF vibevm_session.purpose # JWT_PURPOSE
            THEN HTTPException(401, "Invalid token purpose")
            ELSE IF vibevm_session.sub = NoClaim
            THEN HTTPException(500, "Internal Server Error")
            ELSE [HTTPException(200, "valid")
                  EXCEPT !.user = vibevm_session.sub]
    IN  IF secret.raised
        THEN KeyDerivationError
        ELSE [answer EXCEPT !.keyCalled = secret.called,
                            !.cache = secret.cache]

\* validate with the cookie declared as Cookie(...): FastAPI answers a
\* request without the cookie itself, with 422
validate_RequiredCookie(vibevm_session, t) ==
    IF vibevm_session.kind = "absent"
    THEN HTTPException(422, "Field required")
    ELSE IF ~CookieTruthy(vibevm_session)
    THEN HTTPException(401, "No session cookie")
    ELSE validate_try(vibevm_session, t)

\* GET /auth/validate, app.py:263-286, at clock t
validate(vibevm_session, t) ==
    IF ~CookieTruthy(vibevm_session)
    THEN HTTPException(401, "No session cookie")
    ELSE validate_try(vibevm_session, t)

\* GET /logout, app.py:293-298
logout == RedirectResponse("/login", DeletedCookie)

\* a health check that reports whether the signing key can be had
health_ChecksKey ==
    LET secret == get_jwt_secret
    IN  IF secret.raised
        THEN KeyDerivationError
        ELSE [HTTPException(200, "healthy")
              EXCEPT !.keyCalled = secret.called, !.cache = secret.cache]

\* GET /health, app.py:288-291
health == HTTPException(200, "healthy")

-----------------------------------------------------------------------------
(* The state machine *)

\* the request handled last, with the response it got
\* (repeat: a validate call with the cookie that the exchange before it,
\* a validate call too, was answered "valid" to; retry: the exchange
\* before it ended in the 500 that get_jwt_secret raises)
Exchange(op, username, password, cookie, r) ==
    [op |-> op, username |-> username, password |-> password,
     cookie |-> cookie, status |-> r.status, detail |-> r.detail,
     user |-> r.user, location |-> r.location, setCookie |-> r.setCookie,
     keyCalled |-> r.keyCalled,
     repeat |-> /\ op = "validate"
                /\ last.op = "validate"
                /\ last.status = 200
                /\ last.cookie = cookie,
     retry |-> /\ op # "start"
               /\ last.status = 500
               /\ last.detail = "Failed to derive JWT key"]

Init ==
    /\ now = 0
    /\ _jwt_secret = None
    /\ JWT_EXPIRY_HOURS \in 0..MaxExpiryHours
    /\ dstack \in {"up", "down", "malformed"}
    /\ dstackKey \in DstackKeys
    /\ issued = NoCookie
    /\ session = "none"
    /\ last = Exchange("start", NoClaim, NoClaim, NoCookie,
                       HTTPException(0, NoClaim))

\* the times at which the next request may be handled: now, a tick later
\* or an hour later, inside the window the clock is followed over
Arrivals ==
    { t \in {now, now + 1, now + TicksPerHour} :
        /\ t % TicksPerHour <= MaxSubTicks
        /\ t \div TicksPerHour <= MaxHours }

\* POST /login arrives at t1; the second reading of the clock is d later
Login(username, password, t1, d) ==
    /\ (t1 + d) % TicksPerHour <= MaxSubTicks
    /\ now' = t1 + d
    /\ LET r == login(username, password, t1, t1 + d)
       IN  /\ _jwt_secret' = r.cache
           /\ issued' = IF r.status = 302 THEN r.setCookie ELSE issued
           /\ session' = IF r.status = 302 THEN "issued" ELSE session
           /\ last' = Exchange("login", username, password, NoCookie, r)
    /\ UNCHANGED <<JWT_EXPIRY_HOURS, dstack, dstackKey>>

\* GET /auth/validate arrives at t
Validate(cookie, t) ==
    /\ now' = t
    /\ LET r == validate(cookie, t)
       IN  /\ _jwt_secret' = r.cache
           /\ session' = IF r.status = 200 /\ cookie = issued
                            /\ session = "issued"
                         THEN "accepted" ELSE session
           /\ last' = Exchange("validate", NoClaim, NoClaim, cookie, r)
    /\ UNCHANGED <<JWT_EXPIRY_HOURS, dstack, dstackKey, issued>>

\* GET /logout arrives at t, with whatever cookie the client holds
Logout(cookie, t) ==
    /\ now' = t
    /\ LET r == logout
       IN  /\ _jwt_secret' = r.cache
           /\ last' = Exchange("logout", NoClaim, NoClaim, cookie, r)
    /\ session' = IF session = "accepted" THEN "loggedOut" ELSE session
    /\ UNCHANGED <<JWT_EXPIRY_HOURS, dstack, dstackKey, issued>>

\* GET /health arrives at t
Health(t) ==
    /\ now' = t
    /\ LET r == health
       IN  /\ _jwt_secret' = r.cache
           /\ last' = Exchange("health", NoClaim, NoClaim, NoCookie, r)
    /\ UNCHANGED <<JWT_EXPIRY_HOURS, dstack, dstackKey, issued, session>>

\* the key-management service goes down, comes back, or starts answering
\* without a key
DstackChanges(s) ==
    /\ s # dstack
    /\ dstack' = s
    /\ UNCHANGED <<now, _jwt_secret, JWT_EXPIRY_HOURS, dstackKey, issued,
                   session, last>>

\* the cookies a client may send
Cookies == {NoCookie, EmptyCookie, GarbageCookie, issued} \cup Forged

\* one request is handled
Request ==
    \/ \E u \in Usernames, p \in Passwords, t \in Arrivals, d \in 0..1 :
           Login(u, p, t, d)
    \/ \E c \in Cookies, t \in Arrivals : Validate(c, t)
    \/ \E c \in {NoCookie, issued}, t \in Arrivals : Logout(c, t)
    \/ \E t \in Arrivals : Health(t)

Next ==
    \/ Request
    \/ \E s \in {"up", "down", "malformed"} : DstackChanges(s)

Spec == Init /\ [][Next]_vars

-----------------------------------------------------------------------------
(* Vocabulary of the properties *)

\* the exchange was a request of this kind
Was(op) == last.op = op

\* the exchange ended in the 500 that get_jwt_secret raises
KeyDerivationFailed ==
    last.status = 500 /\ last.detail = "Failed to derive JWT key"

\* a login with the configured username and the configured password
MatchingLogin ==
    Was("login") /\ last.username = USERNAME
                 /\ last.password = VIBEVM_PASSWORD

\* the cookie of the exchange is the token that the last successful login
\* issued, and its exp lies after the time of the exchange
PresentedIssuedUnexpired ==
    /\ Was("validate")
    /\ issued.kind = "jwt"
    /\ last.cookie = issued
    /\ issued.exp * TicksPerSecond > now

\* the answer {"status": "valid", "user": u}
AnsweredValid(u) ==
    last.status = 200 /\ last.detail = "valid" /\ last.user = u

-----------------------------------------------------------------------------
(* C1 *)

\* C1 as stated: every login with the configured username and password is
\* answered 302 with a vibevm_session cookie, and every later validate call
\* that presents the issued token before its expiry is answered "valid"
\* with the username that logged in.
C1_RoundTrip ==
    /\ MatchingLogin =>
           /\ last.status = 302
           /\ last.setCookie.kind = "jwt"
    /\ PresentedIssuedUnexpired => AnsweredValid(USERNAME)

\* C1, amended: a login with the configured username and password is
\* answered 302 with a cookie holding a token for that username, unless the
\* key derivation fails in it (500); a validate call that presents the
\* issued token before its expiry is answered "valid" with the username
\* that logged in, unless the key derivation fails in that call (500),
\* which needs that no non-empty secret is cached.  It is never a 401.
C1_RoundTripUnlessKeyDerivationFails ==
    /\ MatchingLogin =>
           \/ /\ last.status = 302
              /\ last.setCookie.kind = "jwt"
              /\ last.setCookie = issued
              /\ issued.sub = last.username
           \/ /\ KeyDerivationFailed
              /\ last.setCookie = NoCookie
              /\ ~Truthy(_jwt_secret)
    /\ PresentedIssuedUnexpired =>
           \/ AnsweredValid(issued.sub) /\ issued.sub = USERNAME
           \/ KeyDerivationFailed /\ ~Truthy(_jwt_secret)

\* C1 witness: validate answered "valid" to the token a login issued
C1_Witness ==
    /\ PresentedIssuedUnexpired
    /\ AnsweredValid(USERNAME)
    /\ session = "accepted"

-----------------------------------------------------------------------------
(* C2 *)

\* C2: a login whose password differs from the configured password is
\* answered 401 "Invalid credentials" whatever the username, sets no
\* cookie, signs no token and does not touch the signing key.
C2_WrongPasswordRejected ==
    [][(last'.op = "login" /\ last'.password # VIBEVM_PASSWORD) =>
           /\ last'.status = 401
           /\ last'.detail = "Invalid credentials"
           /\ last'.setCookie = NoCookie
           /\ issued' = issued
           /\ ~last'.keyCalled
           /\ _jwt_secret' = _jwt_secret]_vars

\* C2 witness: the configured username with a wrong password, rejected
C2_Witness ==
    /\ Was("login")
    /\ last.username = USERNAME
    /\ last.password = "wrongpass"
    /\ last.status = 401

-----------------------------------------------------------------------------
(* C3 *)

\* the presented cookie is a token whose signature verifies under the
\* secret that get_jwt_secret returned to the exchange
SignatureVerifies ==
    /\ Was("validate")
    /\ last.cookie.kind = "jwt"
    /\ ~KeyDerivationFailed
    /\ last.cookie.key = _jwt_secret

\* C3: a token whose exp is at or before the time of the call, and whose
\* signature verifies, is answered 401 "Session expired", whatever its
\* purpose; a token issued with JWT_EXPIRY_HOURS = 0 is never answered
\* "valid".
C3_ExpiredRejected ==
    /\ ( /\ SignatureVerifies
         /\ last.cookie.exp # NoTime
         /\ last.cookie.exp * TicksPerSecond <= now )
       => (last.status = 401 /\ last.detail = "Session expired")
    /\ ( /\ Was("validate")
         /\ JWT_EXPIRY_HOURS = 0
         /\ issued.kind = "jwt"
         /\ last.cookie = issued )
       => last.status # 200

\* C3 witness: a token issued with TTL 0, of the configured purpose,
\* presented in the very second it was issued in, and answered as expired
C3_Witness ==
    /\ SignatureVerifies
    /\ JWT_EXPIRY_HOURS = 0
    /\ last.cookie = issued
    /\ issued.purpose = JWT_PURPOSE
    /\ ToTimestamp(now) = issued.exp
    /\ last.status = 401
    /\ last.detail = "Session expired"

-----------------------------------------------------------------------------
(* C4 *)

\* C4: a token that validate answers "valid" to is a JWT whose signature
\* verifies under the secret get_jwt_secret returns and whose purpose is
\* JWT_PURPOSE.
C4_AcceptedIsSignedAndPurposed ==
    (Was("validate") /\ last.status = 200) =>
        /\ last.cookie.kind = "jwt"
        /\ _jwt_secret # None
        /\ last.cookie.key = _jwt_secret
        /\ last.cookie.purpose = JWT_PURPOSE

\* C4 witness: an unexpired token with a verifying signature and no
\* purpose claim, rejected
C4_Witness ==
    /\ SignatureVerifies
    /\ last.cookie.purpose = NoClaim
    /\ last.cookie.exp = FarFuture
    /\ last.status = 401
    /\ last.detail = "Invalid token purpose"

-----------------------------------------------------------------------------
(* C5 *)

\* C5: a validate call with no cookie or an empty cookie is answered 401
\* "No session cookie"; every other 401 of validate carries another detail.
C5_NoCookieRejected ==
    /\ (Was("validate") /\ last.cookie \in {NoCookie, EmptyCookie}) =>
           (last.status = 401 /\ last.detail = "No session cookie")
    /\ ( /\ Was("validate")
         /\ last.cookie \notin {NoCookie, EmptyCookie}
         /\ last.status = 401 )
       => last.detail # "No session cookie"

\* C5 witness: the empty cookie, rejected as absent
C5_Witness ==
    /\ Was("validate")
    /\ last.cookie = EmptyCookie
    /\ last.status = 401
    /\ last.detail = "No session cookie"

-----------------------------------------------------------------------------
(* C6 *)

\* C6 as stated: logout answers 302 to /login with the directive that
\* deletes vibevm_session and leaves the server's state as it was; and
\* the issued token, which validate had accepted before the logout, is
\* answered "valid" again whenever it is presented after the logout and
\* before its expiry.
C6_LogoutKeepsTokenValid ==
    [][ /\ last'.op = "logout" =>
               /\ last'.status = 302
               /\ last'.location = "/login"
               /\ last'.setCookie = DeletedCookie
               /\ _jwt_secret' = _jwt_secret
               /\ issued' = issued
        /\ ( /\ session' = "loggedOut"
             /\ last'.op = "validate"
             /\ last'.cookie = issued'
             /\ issued'.exp * TicksPerSecond > now' )
           => (last'.status = 200 /\ last'.user = issued'.sub) ]_vars

-----------------------------------------------------------------------------
(* C7 *)

\* a step in which a request is handled: every other step changes dstack
Handled == dstack' = dstack

\* the step handles a validate call that presents the cookie the call
\* before it was answered "valid" to, before the expiry of that token
RepeatsAcceptedValidate ==
    /\ Handled
    /\ last.op = "validate"
    /\ last.status = 200
    /\ last'.op = "validate"
    /\ last'.cookie = last.cookie
    /\ (last.cookie.exp = NoTime
            \/ last.cookie.exp * TicksPerSecond > now')

\* C7 as stated: a validate call leaves the cached signing secret as it
\* found it, and a repeated validate call with the same unexpired valid
\* token returns the same identity.
C7_ValidateIdempotent ==
    [][ /\ (Handled /\ last'.op = "validate") =>
               _jwt_secret' = _jwt_secret
        /\ RepeatsAcceptedValidate =>
               (last'.status = 200 /\ last'.user = last.user) ]_vars

\* C7, amended: a validate call leaves the signing secret as it found it
\* once a secret is stored; while none is stored, a call with a non-empty
\* cookie stores the key it derives, and nothing else.  A repeated validate
\* call with the same unexpired valid token returns the same identity,
\* unless the key derivation fails in it (500), which needs that no
\* non-empty secret is cached.
C7_ValidateIdempotentOnceCached ==
    [][ /\ (Handled /\ last'.op = "validate") =>
               /\ _jwt_secret # None => _jwt_secret' = _jwt_secret
               /\ _jwt_secret' # _jwt_secret =>
                      /\ CookieTruthy(last'.cookie)
                      /\ last'.keyCalled
                      /\ _jwt_secret' = dstackKey
               /\ UNCHANGED <<JWT_EXPIRY_HOURS, dstackKey, issued>>
        /\ RepeatsAcceptedValidate =>
               \/ last'.status = 200 /\ last'.user = last.user
               \/ /\ last'.status = 500
                  /\ last'.detail = "Failed to derive JWT key"
                  /\ ~Truthy(_jwt_secret) ]_vars

\* C7 witness: a validate call answered "valid" again to the cookie of the
\* call before it
C7_Witness ==
    /\ Was("validate")
    /\ last.repeat
    /\ last.status = 200
    /\ last.user = USERNAME

-----------------------------------------------------------------------------
(* C8 *)

\* C8 as stated: once a call of get_jwt_secret has returned, so a key is
\* stored in _jwt_secret, no later request invokes DstackClient.get_key.
C8_NoDerivationOnceCached ==
    [][(Handled /\ _jwt_secret # None) => ~last'.keyCalled]_vars

-----------------------------------------------------------------------------
(* C9 *)

\* the exchange stored a key in _jwt_secret (app.py:81): get_key was
\* invoked and get_jwt_secret did not raise
SecretWritten(x) ==
    x.keyCalled /\ ~(x.status = 500 /\ x.detail = "Failed to derive JWT key")

\* C9 as stated: _jwt_secret is written at most once; once it holds a key
\* it is not written again and keeps its value.
C9_SecretWrittenOnce ==
    [][(Handled /\ _jwt_secret # None) =>
           /\ _jwt_secret' = _jwt_secret
           /\ ~SecretWritten(last')]_vars

-----------------------------------------------------------------------------
(* C10 *)

\* the AuthError variant of the validate exchange, by the order of spec
\* section 4.4: the token is absent, its signature does not verify under
\* the secret in use, it has expired, or its purpose is not JWT_PURPOSE
AuthError ==
    IF ~CookieTruthy(last.cookie) THEN "NoToken"
    ELSE IF KeyDerivationFailed THEN "KeyDerivationError"
    ELSE IF last.cookie.kind # "jwt" \/ last.cookie.key # _jwt_secret
    THEN "BadSignature"
    ELSE IF /\ last.cookie.exp # NoTime
            /\ last.cookie.exp * TicksPerSecond <= now
    THEN "Expired"
    ELSE IF last.cookie.purpose # JWT_PURPOSE THEN "WrongPurpose"
    ELSE "Ok"

-----------------------------------------------------------------------------
(* C11 *)

\* what the client sees of the exchange
ResponseSeen ==
    [status |-> last.status, detail |-> last.detail, user |-> last.user,
     location |-> last.location, setCookie |-> last.setCookie]

\* the response of a rejected login
InvalidCredentials ==
    [status |-> 401, detail |-> "Invalid credentials", user |-> NoClaim,
     location |-> NoClaim, setCookie |-> NoCookie]

\* C11: a login rejected for its username and a login rejected for its
\* password (a wrong one, or one on which the check raises) get the same
\* response, 401 "Invalid credentials": every login whose username is not
\* USERNAME or whose password is not the configured one gets exactly it.
C11_RejectedLoginsAlike ==
    ( /\ Was("login")
      /\ \/ last.username # USERNAME
         \/ bcrypt_checkpw(last.password, PASSWORD_HASH_BYTES) # "True" )
    => ResponseSeen = InvalidCredentials

\* C11 witness: an unknown username with the configured password, rejected
\* as invalid credentials
C11_Witness ==
    /\ Was("login")
    /\ last.username # USERNAME
    /\ last.password = VIBEVM_PASSWORD
    /\ ResponseSeen = InvalidCredentials

-----------------------------------------------------------------------------
(* C12 *)

\* the step handles a login or validate call while DstackClient.get_key
\* fails (service down or answer malformed) and _jwt_secret is still None
HandledWhileUnderivable ==
    /\ Handled
    /\ dstack # "up"
    /\ _jwt_secret = None
    /\ last'.op \in {"login", "validate"}

\* the call handled by the step reaches get_jwt_secret: a login with the
\* configured credentials, or a validate with a non-empty cookie
ReachesKeyLookup ==
    \/ /\ last'.op = "login"
       /\ last'.username = USERNAME
       /\ last'.password = VIBEVM_PASSWORD
    \/ /\ last'.op = "validate"
       /\ CookieTruthy(last'.cookie)

\* the step issues no token, accepts none and leaves the cache unset
NothingIssuedOrAccepted ==
    /\ issued' = issued
    /\ last'.setCookie = NoCookie
    /\ last'.user = NoClaim
    /\ last'.status \notin {200, 302}
    /\ _jwt_secret' = None

\* C12 as stated: while the key service is unavailable or malformed and no
\* secret is cached, every login and every validate call is answered with
\* the 500 of the key derivation, and no token is issued or accepted.
C12_AllCallsFail500 ==
    [][HandledWhileUnderivable
       => /\ last'.status = 500
          /\ last'.detail = "Failed to derive JWT key"
          /\ NothingIssuedOrAccepted]_vars

\* C12 amended: in that situation a login with the configured credentials
\* and a validate with a non-empty cookie are answered with the 500 of the
\* key derivation, every other login or validate is answered 401, and in
\* both cases no token is issued or accepted and the cache stays unset.
C12_NoSuccessWhileUnderivable ==
    [][HandledWhileUnderivable
       => /\ IF ReachesKeyLookup
             THEN /\ last'.status = 500
                  /\ last'.detail = "Failed to derive JWT key"
                  /\ last'.keyCalled
             ELSE /\ last'.status = 401
                  /\ ~last'.keyCalled
          /\ NothingIssuedOrAccepted]_vars

\* C12 witness: a login with the configured credentials answered with the
\* 500 of the key derivation, the service still failing and nothing cached
C12_Witness ==
    /\ MatchingLogin
    /\ KeyDerivationFailed
    /\ dstack # "up"
    /\ _jwt_secret = None
    /\ issued.kind # "jwt"

-----------------------------------------------------------------------------
(* C13 *)

\* C13 as stated: whatever fails while validate examines a presented token
\* (signature, encoding, expiry, purpose, a missing subject claim) is
\* answered 401; once the secret is at hand, validate answers 200 or 401
\* and nothing else.
C13_TokenFailuresAre401 ==
    (Was("validate") /\ CookieTruthy(last.cookie) /\ ~KeyDerivationFailed)
    => last.status \in {200, 401}

-----------------------------------------------------------------------------
(* C14 *)

\* C14 as stated: the token a login issues has sub = the submitted
\* username, purpose = JWT_PURPOSE, iat = the time of issue and
\* exp = iat + JWT_EXPIRY_HOURS hours, exactly, whatever the clock does
\* while the request is handled.
C14_IssuedClaims ==
    (Was("login") /\ last.status = 302)
    => /\ last.setCookie.kind = "jwt"
       /\ last.setCookie.sub = last.username
       /\ last.setCookie.purpose = JWT_PURPOSE
       /\ last.setCookie.iat = ToTimestamp(now)
       /\ last.setCookie.exp =
              last.setCookie.iat + JWT_EXPIRY_HOURS * SecondsPerHour

-----------------------------------------------------------------------------
(* C15 *)

\* the exp of the presented token lies at or before the time of the exchange
PresentedExpired ==
    /\ last.cookie.exp # NoTime
    /\ last.cookie.exp * TicksPerSecond <= now

\* the exchange was rejected with this detail
Rejected(detail) == last.status = 401 /\ last.detail = detail

\* C15: validate checks absence, signature, expiry and purpose in this
\* order and reports the first check that fails: no cookie is reported
\* before anything else, a signature that does not verify is reported even
\* if the token is also expired or of the wrong purpose, and a correctly
\* signed token that is expired is reported as expired even if its purpose
\* is wrong too; the purpose is reported only for a signed, unexpired token.
C15_FirstFailureReported ==
    Was("validate") =>
      /\ ~CookieTruthy(last.cookie) => Rejected("No session cookie")
      /\ ( /\ last.cookie.kind = "jwt"
           /\ ~KeyDerivationFailed
           /\ last.cookie.key # _jwt_secret )
         => Rejected("Invalid token: Signature verification failed")
      /\ (SignatureVerifies /\ PresentedExpired)
         => Rejected("Session expired")
      /\ ( /\ SignatureVerifies
           /\ ~PresentedExpired
           /\ last.cookie.purpose # JWT_PURPOSE )
         => Rejected("Invalid token purpose")

\* C15 witness: a token that is badly signed, expired and of another
\* purpose at once, reported for its signature
C15_Witness ==
    /\ Was("validate")
    /\ last.cookie.kind = "jwt"
    /\ last.cookie.key # _jwt_secret
    /\ PresentedExpired
    /\ last.cookie.purpose # JWT_PURPOSE
    /\ Rejected("Invalid token: Signature verification failed")

-----------------------------------------------------------------------------
(* C16 *)

\* C16: the credential check fails closed.  A login with the configured
\* username on whose password bcrypt.checkpw raises is answered 401
\* "Invalid credentials"; it issues no token, sets no cookie and does not
\* reach the key lookup.
C16_CheckFailsClosed ==
    [][ ( /\ last'.op = "login"
          /\ last'.username = USERNAME
          /\ bcrypt_checkpw(last'.password, PASSWORD_HASH_BYTES)
                 \notin {"True", "False"} )
        => /\ last'.status = 401
           /\ last'.detail = "Invalid credentials"
           /\ last'.setCookie = NoCookie
           /\ last'.location = NoClaim
           /\ ~last'.keyCalled
           /\ issued' = issued
           /\ session' = session
           /\ _jwt_secret' = _jwt_secret ]_vars

\* C16 witness: the 73-byte password, on which checkpw raises ValueError,
\* submitted with the configured username while the key service is up, and
\* rejected
C16_Witness ==
    /\ Was("login")
    /\ last.username = USERNAME
    /\ last.password = LongPassword
    /\ bcrypt_checkpw(last.password, PASSWORD_HASH_BYTES) = "ValueError"
    /\ dstack = "up"
    /\ last.status = 401
    /\ last.setCookie = NoCookie

-----------------------------------------------------------------------------
(* C17 *)

\* C17: a token is issued only after both credential checks passed.  The
\* token this process signed last has sub = USERNAME; an exchange whose
\* Set-Cookie carries a token is a login whose username and password both
\* matched, and a login in which either did not match sets no cookie.
C17_IssuedOnlyAfterBothChecks ==
    /\ issued.kind = "jwt" => issued.sub = USERNAME
    /\ last.setCookie.kind = "jwt"
       => /\ MatchingLogin
          /\ bcrypt_checkpw(last.password, PASSWORD_HASH_BYTES) = "True"
          /\ last.status = 302
          /\ last.setCookie.sub = USERNAME
    /\ (Was("login") /\ ~MatchingLogin)
       => last.setCookie = NoCookie /\ last.status # 302

\* C17 witness: a login with both credentials matching, answered with the
\* cookie that carries the token it signed
C17_Witness ==
    /\ MatchingLogin
    /\ last.status = 302
    /\ last.setCookie.kind = "jwt"
    /\ last.setCookie = issued
    /\ issued.sub = USERNAME

-----------------------------------------------------------------------------
(* C18 *)

\* C18: a failed key derivation is not sticky.  A call that ends in the 500
\* of get_jwt_secret leaves _jwt_secret as it was, unset; the next call that
\* asks for the secret (a login with the configured credentials, a validate
\* with a non-empty cookie) invokes DstackClient.get_key again, and if the
\* service is up by then the derivation succeeds and the derived key is
\* stored, with no restart in between.
C18_FailureNotSticky ==
    [][ Handled
        => /\ (last'.status = 500 /\ last'.detail = "Failed to derive JWT key")
              => /\ _jwt_secret' = _jwt_secret
                 /\ ~Truthy(_jwt_secret')
           /\ (KeyDerivationFailed /\ ReachesKeyLookup)
              => /\ last'.keyCalled
                 /\ dstack = "up"
                    => /\ ~( /\ last'.status = 500
                              /\ last'.detail = "Failed to derive JWT key" )
                       /\ _jwt_secret' = dstackKey ]_vars

\* C18 witness: a login that follows a failed key derivation, invokes the
\* key service, which has recovered, succeeds and leaves the key cached
C18_Witness ==
    /\ MatchingLogin
    /\ last.retry
    /\ last.keyCalled
    /\ last.status = 302
    /\ _jwt_secret = dstackKey
    /\ Truthy(_jwt_secret)

-----------------------------------------------------------------------------
(* C19 *)

\* what the client sees of the exchange the step handles
ResponseSeenNext ==
    [status |-> last'.status, detail |-> last'.detail, user |-> last'.user,
     location |-> last'.location, setCookie |-> last'.setCookie]

\* the response to a request that never asks for the secret, a function of
\* the request alone
AnswerWithoutSecret(op) ==
    CASE op = "login" -> InvalidCredentials
      [] op = "validate" ->
             [InvalidCredentials EXCEPT !.detail = "No session cookie"]
      [] op = "logout" ->
             [status |-> 302, detail |-> NoClaim, user |-> NoClaim,
              location |-> "/login", setCookie |-> DeletedCookie]
      [] op = "health" ->
             [InvalidCredentials EXCEPT !.status = 200, !.detail = "healthy"]

\* C19: DstackClient.get_key is invoked, and _jwt_secret written, only by a
\* login that passed both credential checks or by a validate with a
\* non-empty cookie.  A rejected login, a validate without a cookie, logout
\* and health never invoke it and leave _jwt_secret unchanged, and their
\* answer is the same in every state of the key service and of the cache.
C19_SecretTouchedOnlyWhenNeeded ==
    [][ Handled
        => /\ (last'.keyCalled \/ _jwt_secret' # _jwt_secret)
              => ReachesKeyLookup
           /\ ~ReachesKeyLookup
              => /\ ~last'.keyCalled
                 /\ _jwt_secret' = _jwt_secret
                 /\ ResponseSeenNext = AnswerWithoutSecret(last'.op) ]_vars

\* C19 witness: a health check answered "healthy" while the key service is
\* down and no secret was ever derived
C19_Witness ==
    /\ Was("health")
    /\ dstack = "down"
    /\ _jwt_secret = None
    /\ ~last.keyCalled
    /\ last.status = 200

====
